---- MODULE Spec2Model ----
(***************************************************************************)
(* Position tracking and slicing of vscode-flowr: the PositionSlicer of    *)
(* src/src/extension.ts (its second half is position-slicer.ts), the       *)
(* docSlicers registry, and the asynchronous updateOutput / updateSlices   *)
(* chain that asks the flowR session for a slice.                          *)
(*                                                                         *)
(* A document is a sequence of characters: "w" is a word character (part   *)
(* of a token), " " a blank and "\n" a line break.  Offsets are zero-based.*)
(* Edits insert word characters and blanks.                                *)
(***************************************************************************)
EXTENDS Integers, Sequences, FiniteSets, TLC

\* ------------------------------------------------------------ bounds ----
MaxLen == 3        \* longest document text
MaxIns == 1        \* longest replacement text of one edit
MaxEdits == 2      \* most edits in one change notification (SpecRemap)
MaxBatch == 1      \* most edits in one change notification (Spec)
MaxSel == 2        \* most cursor positions in one toggle command
MaxTracked == 2    \* most tracked offsets drawn as an input (SpecToggle, SpecRemap)
MaxShift == 11     \* largest offset and edit start drawn for shiftOffset (SpecShift)
MaxShiftLen == 7   \* longest replaced range and replacement drawn for shiftOffset
MaxChanges == 2    \* most change notifications delivered to one document
MaxSlicers == 2    \* most PositionSlicer objects ever constructed
MaxTasks == 2      \* most updateOutput calls suspended at the same time
MaxReq == 2        \* most retrieveSlice requests issued for one document
MaxSessions == 3   \* most session objects ever constructed (SpecSession)
MaxDiagrams == 2   \* most retrieveDataflowMermaid calls (SpecSession)
MaxPending == 1    \* fewer updates than this are suspended when a handler starts (SpecDocs)

Docs == {"A", "B"}
Chars == {"w", " ", "\n"}     \* what a document is made of
InsChars == {"w", " "}        \* what an edit inserts

VARIABLES
    openDocs,      \* the documents open in the editor
    text,          \* text[d]: current text of document d
    changes,       \* changes[d]: change notifications delivered for d so far
    slicers,       \* every PositionSlicer constructed so far (its listener stays registered)
    docSlicers,    \* docSlicers[d]: index into slicers, 0 when the map has no entry
    contents,      \* contents[u]: what the reconstruction content provider holds for uri u
    flowrSession,  \* the registered session
    newest,        \* newest[d]: highest request number of d whose response has arrived
    tasks,         \* the suspended updateOutput calls
    issued,        \* issued[d]: retrieveSlice requests issued for d so far
    tg,            \* SpecToggle: one tracked set, one argument, togglePositions applied to it
    rm,            \* SpecRemap: one tracked set, one notification, onDocChange's offsets
    sh,            \* SpecShift: one offset, one edit, shiftOffset applied to it
    reg            \* SpecSession: the session objects and the flowrSession of part_000

vars == <<openDocs, text, changes, slicers, docSlicers, contents, flowrSession,
          newest, tasks, issued, tg, rm, sh, reg>>

\* ------------------------------------------------------- small helpers ----
Min(a, b) == IF a < b THEN a ELSE b
Max(a, b) == IF a > b THEN a ELSE b
Range(s) == {s[i] : i \in 1..Len(s)}
SetMax(S) == CHOOSE x \in S : \A y \in S : y <= x

RECURSIVE SeqsUpTo(_, _)
\* all sequences over S of length at most n
SeqsUpTo(S, n) ==
    IF n = 0 THEN {<<>>}
    ELSE LET shorter == SeqsUpTo(S, n - 1)
         IN shorter \cup {Append(q, x) : q \in {r \in shorter : Len(r) = n - 1}, x \in S}

Remove(seq, i) == SubSeq(seq, 1, i - 1) \o SubSeq(seq, i + 1, Len(seq))

\* --------------------------------------------- vscode.TextDocument ----
\* Offsets at which a line of txt starts.
LineStarts(txt) == {0} \cup {i \in 1..Len(txt) : txt[i] = "\n"}

\* TextDocument.positionAt: the offset is clamped into the text, then split
\* into line and character.
positionAt(txt, offset) ==
    LET o == Max(0, Min(offset, Len(txt)))
        start == SetMax({s \in LineStarts(txt) : s <= o})
    IN [line |-> Cardinality({s \in LineStarts(txt) : s < start}),
        character |-> o - start]

\* TextDocument.offsetAt: line and character are clamped into the text.
offsetAt(txt, pos) ==
    LET starts == LineStarts(txt)
        line == Min(pos.line, Cardinality(starts) - 1)
        start == CHOOSE s \in starts : Cardinality({y \in starts : y < s}) = line
        later == {s \in starts : s > start}
        end == IF later = {} THEN Len(txt)
               ELSE (CHOOSE s \in later : \A y \in later : s <= y) - 1
    IN start + Min(pos.character, end - start)

Positions(txt) == {positionAt(txt, o) : o \in 0..Len(txt)}

\* getPositionAt of ./flowr/utils: the range of the token containing the
\* position, or no range when the position is not inside a token.
NoRange == [found |-> FALSE, start |-> [line |-> 0, character |-> 0],
            end |-> [line |-> 0, character |-> 0]]
getPositionAt(pos, txt) ==
    LET o == offsetAt(txt, pos)
    IN IF o >= Len(txt) \/ txt[o + 1] # "w" THEN NoRange
       ELSE LET s == CHOOSE i \in 0..o :
                        /\ \A j \in (i + 1)..(o + 1) : txt[j] = "w"
                        /\ (i = 0 \/ txt[i] # "w")
                e == CHOOSE i \in (o + 1)..Len(txt) :
                        /\ \A j \in (o + 1)..i : txt[j] = "w"
                        /\ (i = Len(txt) \/ txt[i + 1] # "w")
            IN [found |-> TRUE, start |-> positionAt(txt, s), end |-> positionAt(txt, e)]

\* PositionSlicer.normalizeOffset for a vscode.Position argument
normalizePosition(txt, pos) ==
    LET range == getPositionAt(pos, txt)
    IN IF ~range.found THEN -1
       ELSE offsetAt(txt, range.start)

\* PositionSlicer.normalizeOffset for a number argument
normalizeOffset(txt, offset) == normalizePosition(txt, positionAt(txt, offset))

\* ------------------------------------------------------ shiftOffset ----
\* number | undefined
undefined == [def |-> FALSE, val |-> 0]
Num(n) == [def |-> TRUE, val |-> n]
\* JavaScript's !v for a number | undefined
Falsy(v) == ~v.def \/ v.val = 0

\* shiftOffset with the end of the replaced range counted as inside it
shiftOffset_EndInclusive(offset, cc) ==
    IF cc.rangeOffset > offset THEN Num(offset)
    ELSE IF cc.rangeLength + cc.rangeOffset >= offset THEN undefined
    ELSE Num(offset + (Len(cc.text) - cc.rangeLength))

shiftOffset(offset, cc) ==
    IF cc.rangeOffset > offset THEN Num(offset)
    ELSE IF cc.rangeLength + cc.rangeOffset > offset THEN undefined
    ELSE Num(offset + (Len(cc.text) - cc.rangeLength))

\* One vscode.TextDocumentContentChangeEvent.
Edit(start, len, ins) == [rangeOffset |-> start, rangeLength |-> len, text |-> ins]

\* The edits that can be made to txt: a range inside the text and a
\* replacement that keeps the text within MaxLen.
EditsOf(txt) ==
    {cc \in [rangeOffset : 0..Len(txt), rangeLength : 0..Len(txt),
             text : SeqsUpTo(InsChars, MaxIns)] :
        /\ cc.rangeOffset + cc.rangeLength <= Len(txt)
        /\ cc.rangeLength > 0 \/ cc.text # <<>>
        /\ Len(txt) - cc.rangeLength + Len(cc.text) <= MaxLen}

\* The text after one edit.
ApplyEdit(txt, cc) ==
    SubSeq(txt, 1, cc.rangeOffset) \o cc.text
        \o SubSeq(txt, cc.rangeOffset + cc.rangeLength + 1, Len(txt))

RECURSIVE ApplyEdits(_, _)
ApplyEdits(txt, ccs) ==
    IF ccs = <<>> THEN txt ELSE ApplyEdits(ApplyEdit(txt, Head(ccs)), Tail(ccs))

RECURSIVE EditSeqs(_, _)
\* The contentChanges a notification can carry for txt: 1..n edits, each
\* addressed in the text the previous one left.
EditSeqs(txt, n) ==
    IF n = 0 THEN {}
    ELSE UNION {{<<cc>>} \cup {<<cc>> \o rest : rest \in EditSeqs(ApplyEdit(txt, cc), n - 1)} :
                    cc \in EditsOf(txt)}

RECURSIVE shiftAll(_, _)
\* onDocChange, the inner loop over e.contentChanges for one tracked offset:
\* a falsy shiftOffset result sets the offset to -1 and leaves the loop.
shiftAll(offset, ccs) ==
    IF ccs = <<>> THEN offset
    ELSE LET offset1 == shiftOffset(offset, Head(ccs))
         IN IF Falsy(offset1) THEN -1 ELSE shiftAll(offset1.val, Tail(ccs))

RECURSIVE computeNewOffsets_NoNormalize(_, _, _)
\* onDocChange that pushes the shifted offset as it is
computeNewOffsets_NoNormalize(offsets, ccs, txt) ==
    IF offsets = <<>> THEN <<>>
    ELSE LET offset == shiftAll(Head(offsets), ccs)
             rest == computeNewOffsets_NoNormalize(Tail(offsets), ccs, txt)
         IN IF offset >= 0 THEN <<offset>> \o rest ELSE rest

RECURSIVE computeNewOffsets(_, _, _)
\* onDocChange, the outer loop: every tracked offset is shifted, normalized
\* in the edited text, and pushed when it is >= 0.
computeNewOffsets(offsets, ccs, txt) ==
    IF offsets = <<>> THEN <<>>
    ELSE LET offset == normalizeOffset(txt, shiftAll(Head(offsets), ccs))
             rest == computeNewOffsets(Tail(offsets), ccs, txt)
         IN IF offset >= 0 THEN <<offset>> \o rest ELSE rest

\* --------------------------------------------------- togglePositions ----
RECURSIVE NormalizeAll(_, _)
\* positions.map(normalizeOffset).filter(i => i >= 0)
NormalizeAll(txt, positions) ==
    IF positions = <<>> THEN <<>>
    ELSE LET o == normalizePosition(txt, Head(positions))
             rest == NormalizeAll(txt, Tail(positions))
         IN IF o >= 0 THEN <<o>> \o rest ELSE rest

RECURSIVE pushUntracked(_, _)
\* the for loop of togglePositions: push each offset that indexOf does not find
pushUntracked(tracked, offsets) ==
    IF offsets = <<>> THEN tracked
    ELSE pushUntracked(IF Head(offsets) \in Range(tracked) THEN tracked
                       ELSE Append(tracked, Head(offsets)),
                       Tail(offsets))

\* togglePositions whose filter keeps the toggled offsets instead of dropping them
togglePositions_KeepToggled(tracked, positions, txt) ==
    LET offsets == NormalizeAll(txt, positions)
        onlyRemove == \A i \in 1..Len(offsets) : offsets[i] \in Range(tracked)
    IN IF Len(offsets) = 0 THEN [offsets |-> tracked, ret |-> FALSE]
       ELSE IF onlyRemove
            THEN [offsets |-> SelectSeq(tracked, LAMBDA o : o \in Range(offsets)),
                  ret |-> TRUE]
            ELSE [offsets |-> pushUntracked(tracked, offsets), ret |-> TRUE]

\* togglePositions that toggles each offset on its own
togglePositions_Partial(tracked, positions, txt) ==
    LET offsets == NormalizeAll(txt, positions)
    IN IF Len(offsets) = 0 THEN [offsets |-> tracked, ret |-> FALSE]
       ELSE [offsets |-> pushUntracked(
                             SelectSeq(tracked, LAMBDA o : o \notin Range(offsets)),
                             SelectSeq(offsets, LAMBDA o : o \notin Range(tracked))),
             ret |-> TRUE]

\* togglePositions without the early return for an empty offset list
togglePositions_NoEarlyReturn(tracked, positions, txt) ==
    LET offsets == NormalizeAll(txt, positions)
        onlyRemove == \A i \in 1..Len(offsets) : offsets[i] \in Range(tracked)
    IN IF onlyRemove
       THEN [offsets |-> SelectSeq(tracked, LAMBDA o : o \notin Range(offsets)),
             ret |-> TRUE]
       ELSE [offsets |-> pushUntracked(tracked, offsets), ret |-> TRUE]

\* togglePositions: the tracked offsets afterwards and the value returned
togglePositions(tracked, positions, txt) ==
    LET offsets == NormalizeAll(txt, positions)
        onlyRemove == \A i \in 1..Len(offsets) : offsets[i] \in Range(tracked)
    IN IF Len(offsets) = 0 THEN [offsets |-> tracked, ret |-> FALSE]
       ELSE IF onlyRemove
            THEN [offsets |-> SelectSeq(tracked, LAMBDA o : o \notin Range(offsets)),
                  ret |-> TRUE]
            ELSE [offsets |-> pushUntracked(tracked, offsets), ret |-> TRUE]

\* ------------------------------------------- the objects of the model ----
\* The uri of PositionSlicer.makeUri() is one per document; dispose() uses
\* makeUri(positionSlicerAuthority, positionSlicerSuffix), a uri of its own.
SuffixUri == "Slice"
Uris == Docs \cup {SuffixUri}

NoContent == [kind |-> "undefined", seq |-> 0]
NoSliceContent == [kind |-> "# No slice", seq |-> 0]
\* '# No slice' published for the answer to request seq
NoSliceFor(seq) == [kind |-> "# No slice", seq |-> seq]
CodeOf(seq) == [kind |-> "code", seq |-> seq]

\* new PositionSlicer(doc); ver counts the change notifications its
\* listener has applied to offsets, starting from the text it was made for.
NewSlicer(d) ==
    [doc |-> d, offsets |-> <<>>, ver |-> changes[d], targetDecos |-> <<>>,
     positionDeco |-> "live", sliceDecos |-> "undefined", shown |-> 0]

\* PositionSlicer.dispose applied to slicer record sl
dispose(sl) ==
    [sl EXCEPT !.positionDeco = "disposed", !.targetDecos = <<>>,
               !.sliceDecos = IF @ = "live" THEN "disposed" ELSE @,
               !.shown = 0]

\* PositionSlicer.clearSliceDecos
clearSliceDecos(sl) == [sl EXCEPT !.sliceDecos = "undefined", !.shown = 0]

\* PositionSlicer.updateTargetDecos, the document being shown in a visible
\* editor: the ranges of the tracked offsets decorate the editor (a disposed
\* decoration type decorates nothing).
updateTargetDecos(sl, txt) ==
    LET ranges == SelectSeq(sl.offsets,
                      LAMBDA o : getPositionAt(positionAt(txt, o), txt).found)
    IN [sl EXCEPT !.sliceDecos = IF @ = "undefined" THEN "live" ELSE @,
                  !.targetDecos = IF sl.positionDeco = "live" THEN ranges ELSE @]

\* A suspended updateOutput call of slicer s, started by addPositions
\* ("add") or onDocChange ("change") when the document had seen startVer
\* notifications, waiting for getFlowrSession ("session") or for
\* retrieveSlice ("slice"); of the request it issued: its number seq among
\* the document's requests, the positions sent, the notifications the
\* document had seen (sentVer) and those applied to the offsets (offVer), and
\* the session whose retrieveSlice was called; late: the call was started by
\* a change notification that came after the slicer had been disposed.
NewTask(s, kind, ver) ==
    [s |-> s, kind |-> kind, pc |-> "session", startVer |-> ver, seq |-> 0,
     sent |-> <<>>, sentVer |-> 0, offVer |-> 0, session |-> "undefined",
     late |-> FALSE]

\* ------------------------------------- the reference for a remapping ----
\* The characters of a text of length n, each tagged with its place; an
\* edit replaces a range of tags by zeros, one per inserted character.
ApplyEditTags(tags, cc) ==
    ApplyEdit(tags, [cc EXCEPT !.text = [i \in 1..Len(cc.text) |-> 0]])

RECURSIVE ApplyEditsTags(_, _)
ApplyEditsTags(tags, ccs) ==
    IF ccs = <<>> THEN tags ELSE ApplyEditsTags(ApplyEditTags(tags, Head(ccs)), Tail(ccs))

FinalTags(n, ccs) == ApplyEditsTags([i \in 1..n |-> i], ccs)

\* The character at offset o of the old text is still in the edited text.
RefSurvives(n, ccs, o) == o + 1 \in Range(FinalTags(n, ccs))

\* Its offset there, found by scanning the edited text.
RefImage(n, ccs, o) ==
    LET tags == FinalTags(n, ccs)
    IN (CHOOSE i \in 1..Len(tags) : tags[i] = o + 1) - 1

RECURSIVE NonOverlapping(_, _)
\* No edit of the sequence replaces a character an earlier edit inserted.
NonOverlapping(tags, ccs) ==
    \/ ccs = <<>>
    \/ LET cc == Head(ccs)
       IN /\ \A i \in (cc.rangeOffset + 1)..(cc.rangeOffset + cc.rangeLength) : tags[i] # 0
          /\ NonOverlapping(ApplyEditTags(tags, cc), Tail(ccs))

\* The start of the token that holds the character at offset o of txt.
TokenStart(txt, o) ==
    CHOOSE i \in 0..o : /\ \A j \in (i + 1)..(o + 1) : txt[j] = "w"
                        /\ (i = 0 \/ txt[i] # "w")

\* The inputs of the three specifications of single operations, when idle.
NoToggle == [step |-> 0, text |-> <<>>, T |-> <<>>, P |-> <<>>, before |-> <<>>,
             offsets |-> <<>>, ret |-> FALSE]
NoRemap == [done |-> FALSE, text |-> <<>>, T |-> <<>>, ccs |-> <<>>, offsets |-> <<>>]
NoShift == [done |-> FALSE, offset |-> 0, cc |-> Edit(0, 0, <<>>), res |-> undefined]

\* ------------------------------------ the session registry of part_000 ----
\* reg.sessions: every session object constructed so far, with its class,
\* whether its initialize() has completed and how often destroy() was called
\* on it; reg.flowrSession: the index of the registered one, 0 for undefined;
\* reg.waiting: the sessions whose dataflow command is suspended at
\* `await establishInternalSession()`; reg.diagrams: the
\* retrieveDataflowMermaid calls, each with its session and whether that
\* session was initialized at the call; reg.lastDestroyed: the session that
\* the step before destroyed when that step was a destroySession call, else
\* 0; reg.repeats: the destroySession calls that came directly after a
\* destroySession call that had destroyed a session.
NoRegistry == [sessions |-> <<>>, flowrSession |-> 0, waiting |-> {},
               diagrams |-> <<>>, lastDestroyed |-> 0, repeats |-> 0]

\* new FlowrInternalSession / new FlowrServerSession
NewSession(kind) == [kind |-> kind, initialized |-> FALSE, destroyed |-> 0]

\* destroySession that leaves the destroyed session registered
destroySession_KeepsRegistered(r) ==
    IF r.flowrSession = 0 THEN r
    ELSE [r EXCEPT !.sessions[r.flowrSession].destroyed = @ + 1]

\* destroySession: flowrSession?.destroy(); flowrSession = undefined
destroySession(r) ==
    IF r.flowrSession = 0 THEN r
    ELSE [r EXCEPT !.sessions[r.flowrSession].destroyed = @ + 1, !.flowrSession = 0]

\* flowrSession = new ...(outputChannel)
register(r, kind) ==
    [r EXCEPT !.sessions = Append(@, NewSession(kind)), !.flowrSession = Len(r.sessions) + 1]

\* establishServerSession that does not destroy the session it replaces
establishServerSession_NoDestroy(r) == register(r, "server")

\* establishServerSession; its initialize() is not awaited
establishServerSession(r) == register(destroySession(r), "server")

\* establishInternalSession up to `await flowrSession.initialize()`
establishInternalSession(r) == register(destroySession(r), "internal")

\* ------------------------------------------------------------- Init ----
\* The text a document starts with: two tokens on two lines.
InitText == <<"w", "\n", "w">>

InitCommon ==
    /\ changes = [d \in Docs |-> 0]
    /\ slicers = <<>>
    /\ docSlicers = [d \in Docs |-> 0]
    /\ contents = [u \in Uris |-> NoContent]
    /\ flowrSession = "undefined"
    /\ newest = [d \in Docs |-> 0]
    /\ tasks = <<>>
    /\ issued = [d \in Docs |-> 0]

\* One document is open in the editor; nothing is tracked yet.
Init ==
    /\ openDocs = {"A"}
    /\ text = [d \in Docs |-> InitText]
    /\ InitCommon
    /\ tg = NoToggle /\ rm = NoRemap /\ sh = NoShift /\ reg = NoRegistry

\* ---------------------------------------------------------- actions ----
\* updateOutput calls of slicers of d that have not yet issued their request
Pending(d) ==
    Cardinality({i \in 1..Len(tasks) : tasks[i].pc = "session" /\ slicers[tasks[i].s].doc = d})

\* k more updateOutput calls for d fit the bounds
CanStart(d, k) ==
    /\ Len(tasks) + k <= MaxTasks
    /\ issued[d] + Pending(d) + k <= MaxReq

\* addPositions after togglePositions / updateOutput: a slicer left without
\* tracked offsets is disposed and the document's entry deleted.
addPositionsTail(s, sls, ds, cs) ==
    IF sls[s].offsets = <<>>
    THEN [slicers |-> [sls EXCEPT ![s] = dispose(@)],
          docSlicers |-> [ds EXCEPT ![sls[s].doc] = 0],
          contents |-> [cs EXCEPT ![SuffixUri] = NoContent]]
    ELSE [slicers |-> sls, docSlicers |-> ds, contents |-> cs]

\* What follows the end of updateOutput in the caller that awaited it.
AfterUpdateOutput(kind, s, sls, ds, cs) ==
    IF kind = "add" THEN addPositionsTail(s, sls, ds, cs)
    ELSE [slicers |-> sls, docSlicers |-> ds, contents |-> cs]

\* addPositions(positions, doc) up to its first suspension.
AddPositions(d, P) ==
    \E s \in {IF docSlicers[d] # 0 THEN docSlicers[d] ELSE Len(slicers) + 1} :
    \E base \in {IF docSlicers[d] # 0 THEN slicers ELSE Append(slicers, NewSlicer(d))} :
    \E res \in {togglePositions(base[s].offsets, P, text[d])} :
    \E toggled \in {[base EXCEPT ![s].offsets = res.offsets]} :
       /\ docSlicers[d] = 0 => Len(slicers) < MaxSlicers
       /\ IF res.ret
          THEN /\ CanStart(d, 1)
               /\ slicers' = [toggled EXCEPT ![s] = updateTargetDecos(@, text[d])]
               /\ docSlicers' = [docSlicers EXCEPT ![d] = s]
               /\ tasks' = Append(tasks, NewTask(s, "add", changes[d]))
               /\ UNCHANGED contents
          ELSE \E after \in {addPositionsTail(s, toggled,
                                  [docSlicers EXCEPT ![d] = s], contents)} :
                  /\ slicers' = after.slicers
                  /\ docSlicers' = after.docSlicers
                  /\ contents' = after.contents
                  /\ UNCHANGED tasks
       /\ UNCHANGED <<openDocs, text, changes, flowrSession, newest, issued, tg, rm, sh, reg>>

\* disposeActivePositionSlicer, d being the active editor's document.
DisposeActive(d) ==
    /\ docSlicers[d] # 0
    /\ slicers' = [slicers EXCEPT ![docSlicers[d]] = dispose(@)]
    /\ contents' = [contents EXCEPT ![SuffixUri] = NoContent]
    /\ docSlicers' = [docSlicers EXCEPT ![d] = 0]
    /\ UNCHANGED <<openDocs, text, changes, flowrSession, newest, tasks, issued, tg, rm, sh, reg>>

\* onDocChange returning before it recomputes this.offsets
onDocChangeOffsets_Skipped(sl, ccs, txt) == sl

\* onDocChange, the part that recomputes this.offsets; ver counts it.
onDocChangeOffsets(sl, ccs, txt) ==
    [sl EXCEPT !.offsets = computeNewOffsets(@, ccs, txt), !.ver = @ + 1]

\* onDocChange without the check of e.document
Listeners_AllDocs(d) == 1..Len(slicers)

\* The slicers whose onDocChange goes past `e.document !== this.doc` for a
\* change of d; the listener of a disposed slicer is still registered.
Listeners(d) == {i \in 1..Len(slicers) : slicers[i].doc = d}

\* The editor applies the edits ccs to d and notifies every listener:
\* each slicer of d runs onDocChange up to its first suspension.
OnDocChange(d, ccs) ==
    LET listeners == Listeners(d)
        txt == ApplyEdits(text[d], ccs)
    IN /\ changes[d] < MaxChanges
       /\ CanStart(d, Cardinality(listeners))
       /\ text' = [text EXCEPT ![d] = txt]
       /\ changes' = [changes EXCEPT ![d] = @ + 1]
       /\ slicers' = [i \in 1..Len(slicers) |->
                         IF i \in listeners
                         THEN updateTargetDecos(onDocChangeOffsets(slicers[i], ccs, txt), txt)
                         ELSE slicers[i]]
       /\ tasks' = tasks \o [k \in 1..Cardinality(listeners) |->
                        LET s == CHOOSE i \in listeners :
                                     Cardinality({j \in listeners : j < i}) = k - 1
                        IN [NewTask(s, "change", changes[d] + 1) EXCEPT
                               !.late = slicers[s].positionDeco = "disposed"]]
       /\ UNCHANGED <<openDocs, docSlicers, contents, flowrSession, newest, issued, tg, rm, sh, reg>>

\* getFlowrSession of ./extension: the registered session, a missing one
\* being established first as the internal (local) session.
getFlowrSession(session) == IF session = "undefined" THEN "internal" ELSE session

\* updateSlices that sends the request whatever the positions are
NothingToSlice_Never(positions) == FALSE

\* updateSlices, `positions.length === 0`
NothingToSlice(positions) == Len(positions) = 0

\* updateSlices resumes from `await getFlowrSession()`: with no tracked offsets it clears
\* the slice decorations and updateOutput publishes '# No slice'; otherwise
\* it calls retrieveSlice with the positions of the offsets as they are now.
ResumeUpdateSlices(i) ==
    LET t == tasks[i]
        sl == slicers[t.s]
        d == sl.doc
        positions == [k \in 1..Len(sl.offsets) |-> positionAt(text[d], sl.offsets[k])]
    IN /\ t.pc = "session"
       /\ flowrSession' = getFlowrSession(flowrSession)
       /\ IF NothingToSlice(positions)
          THEN LET after == AfterUpdateOutput(t.kind, t.s,
                                [slicers EXCEPT ![t.s] = clearSliceDecos(@)], docSlicers,
                                [contents EXCEPT ![d] = NoSliceContent])
               IN /\ slicers' = after.slicers
                  /\ docSlicers' = after.docSlicers
                  /\ contents' = after.contents
                  /\ tasks' = Remove(tasks, i)
                  /\ UNCHANGED issued
          ELSE /\ issued' = [issued EXCEPT ![d] = @ + 1]
               /\ tasks' = [tasks EXCEPT ![i] =
                               [t EXCEPT !.pc = "slice", !.seq = issued[d] + 1,
                                         !.sent = positions, !.sentVer = changes[d],
                                         !.offVer = sl.ver,
                                         !.session = getFlowrSession(flowrSession)]]
               /\ UNCHANGED <<slicers, docSlicers, contents>>
       /\ UNCHANGED <<openDocs, text, changes, newest, tg, rm, sh, reg>>

\* retrieveSlice answers with slice elements: they are displayed and
\* updateOutput publishes the reconstructed code.
SliceResponse(i) ==
    LET t == tasks[i]
        sl == slicers[t.s]
        d == sl.doc
        decos == IF sl.sliceDecos = "undefined" THEN "live" ELSE sl.sliceDecos
        after == AfterUpdateOutput(t.kind, t.s,
                    [slicers EXCEPT ![t.s] =
                        [sl EXCEPT !.sliceDecos = decos,
                                   !.shown = IF decos = "live" THEN t.seq ELSE @]],
                    docSlicers, [contents EXCEPT ![d] = CodeOf(t.seq)])
    IN /\ t.pc = "slice"
       /\ slicers' = after.slicers
       /\ docSlicers' = after.docSlicers
       /\ contents' = after.contents
       /\ newest' = [newest EXCEPT ![d] = Max(@, t.seq)]
       /\ tasks' = Remove(tasks, i)
       /\ UNCHANGED <<openDocs, text, changes, flowrSession, issued, tg, rm, sh, reg>>

\* updateSlices returning the code of a response without slice elements
EmptySliceCode_Returned(seq) == CodeOf(seq)

\* updateSlices, `sliceElements.length === 0`: it returns undefined
EmptySliceCode(seq) == NoContent

\* updateOutput, `await this.updateSlices() || '# No slice'`
OrNoSlice(code, seq) == IF code.kind = "undefined" THEN NoSliceFor(seq) ELSE code

\* retrieveSlice answers with code and no slice elements.
SliceEmpty(i) ==
    LET t == tasks[i]
        d == slicers[t.s].doc
        after == AfterUpdateOutput(t.kind, t.s,
                    [slicers EXCEPT ![t.s] = clearSliceDecos(@)], docSlicers,
                    [contents EXCEPT ![d] = OrNoSlice(EmptySliceCode(t.seq), t.seq)])
    IN /\ t.pc = "slice"
       /\ slicers' = after.slicers
       /\ docSlicers' = after.docSlicers
       /\ contents' = after.contents
       /\ newest' = [newest EXCEPT ![d] = Max(@, t.seq)]
       /\ tasks' = Remove(tasks, i)
       /\ UNCHANGED <<openDocs, text, changes, flowrSession, issued, tg, rm, sh, reg>>

\* retrieveSlice rejects: the rejection passes through updateSlices,
\* updateOutput and the caller, none of which catches it.
SliceFails(i) ==
    /\ tasks[i].pc = "slice"
    /\ tasks' = Remove(tasks, i)
    /\ UNCHANGED <<openDocs, text, changes, slicers, docSlicers, contents,
                   flowrSession, newest, issued, tg, rm, sh, reg>>

\* establishServerSession (command vscode-flowr.session.connect)
EstablishServerSession ==
    /\ flowrSession # "server"
    /\ flowrSession' = "server"
    /\ UNCHANGED <<openDocs, text, changes, slicers, docSlicers, contents,
                   newest, tasks, issued, tg, rm, sh, reg>>

\* command vscode-flowr.session.disconnect: destroySession for a server session
Disconnect ==
    /\ flowrSession = "server"
    /\ flowrSession' = "undefined"
    /\ UNCHANGED <<openDocs, text, changes, slicers, docSlicers, contents,
                   newest, tasks, issued, tg, rm, sh, reg>>

\* ------------------------------- specifications of single operations ----
Texts == SeqsUpTo(Chars, MaxLen)
TokenStarts(txt) == {o \in 0..Len(txt) : normalizeOffset(txt, o) = o}
\* The tracked offsets a slicer of txt can hold: token starts, in the order
\* they were toggled on; onDocChange can leave one twice.
TrackedLists(txt) == SeqsUpTo(TokenStarts(txt), MaxTracked)
PositionListsOf(txt) == SeqsUpTo(Positions(txt), MaxSel) \ {<<>>}

\* SpecToggle: togglePositions(P) is called twice on a slicer tracking T.
InitToggle ==
    /\ openDocs = {} /\ text = [d \in Docs |-> <<>>] /\ InitCommon
    /\ rm = NoRemap /\ sh = NoShift /\ reg = NoRegistry
    /\ \E txt \in Texts : \E T \in TrackedLists(txt) : \E P \in PositionListsOf(txt) :
          tg = [NoToggle EXCEPT !.text = txt, !.T = T, !.P = P, !.offsets = T]

ToggleCall ==
    /\ tg.step < 2
    /\ LET res == togglePositions(tg.offsets, tg.P, tg.text)
       IN tg' = [tg EXCEPT !.step = @ + 1, !.before = tg.offsets,
                           !.offsets = res.offsets, !.ret = res.ret]
    /\ UNCHANGED <<openDocs, text, changes, slicers, docSlicers, contents, flowrSession,
                   newest, tasks, issued, rm, sh, reg>>

SpecToggle == InitToggle /\ [][ToggleCall]_vars

\* SpecRemap: one change notification reaches a slicer tracking T.
InitRemap ==
    /\ openDocs = {} /\ text = [d \in Docs |-> <<>>] /\ InitCommon
    /\ tg = NoToggle /\ sh = NoShift /\ reg = NoRegistry
    /\ \E txt \in Texts : \E T \in TrackedLists(txt) : \E ccs \in EditSeqs(txt, MaxEdits) :
          rm = [NoRemap EXCEPT !.text = txt, !.T = T, !.ccs = ccs]

RemapCall ==
    /\ ~rm.done
    /\ rm' = [rm EXCEPT !.done = TRUE,
                        !.offsets = computeNewOffsets(rm.T, rm.ccs, ApplyEdits(rm.text, rm.ccs))]
    /\ UNCHANGED <<openDocs, text, changes, slicers, docSlicers, contents, flowrSession,
                   newest, tasks, issued, tg, sh, reg>>

SpecRemap == InitRemap /\ [][RemapCall]_vars

\* SpecShift: shiftOffset is applied to one offset and one edit.
InitShift ==
    /\ openDocs = {} /\ text = [d \in Docs |-> <<>>] /\ InitCommon
    /\ tg = NoToggle /\ rm = NoRemap /\ reg = NoRegistry
    /\ \E offset \in 0..MaxShift : \E start \in 0..MaxShift :
       \E len \in 0..MaxShiftLen : \E k \in 0..MaxShiftLen :
          sh = [NoShift EXCEPT !.offset = offset,
                               !.cc = Edit(start, len, [i \in 1..k |-> "w"])]

ShiftCall ==
    /\ ~sh.done
    /\ sh' = [sh EXCEPT !.done = TRUE, !.res = shiftOffset(sh.offset, sh.cc)]
    /\ UNCHANGED <<openDocs, text, changes, slicers, docSlicers, contents, flowrSession,
                   newest, tasks, issued, tg, rm, reg>>

SpecShift == InitShift /\ [][ShiftCall]_vars

PositionLists(d) == SeqsUpTo(Positions(text[d]), MaxSel) \ {<<>>}

\* SpecTrack: the tracked offsets of one slicer under toggles and change
\* notifications, from any text. Each handler runs up to the await of
\* updateSlices; what follows that await touches neither the text nor the
\* offsets and is left out.
InitTrack ==
    /\ openDocs = {"A"}
    /\ \E txt \in Texts : text = [d \in Docs |-> txt]
    /\ changes = [d \in Docs |-> 0]
    /\ slicers = <<NewSlicer("A")>>
    /\ docSlicers = [d \in Docs |-> IF d = "A" THEN 1 ELSE 0]
    /\ contents = [u \in Uris |-> NoContent]
    /\ flowrSession = "undefined"
    /\ newest = [d \in Docs |-> 0]
    /\ tasks = <<>>
    /\ issued = [d \in Docs |-> 0]
    /\ tg = NoToggle /\ rm = NoRemap /\ sh = NoShift /\ reg = NoRegistry

\* addPositions for a document that has a slicer, up to the await of
\* updateSlices
TrackToggle(P) ==
    /\ \E res \in {togglePositions(slicers[1].offsets, P, text["A"])} :
       \E toggled \in {[slicers[1] EXCEPT !.offsets = res.offsets]} :
          slicers' = [slicers EXCEPT ![1] = IF res.ret THEN updateTargetDecos(toggled, text["A"])
                                            ELSE toggled]
    /\ UNCHANGED <<openDocs, text, changes, docSlicers, contents, flowrSession,
                   newest, tasks, issued, tg, rm, sh, reg>>

\* onDocChange up to the await of updateSlices
TrackChange(ccs) ==
    /\ changes["A"] < MaxChanges
    /\ text' = [text EXCEPT !["A"] = ApplyEdits(@, ccs)]
    /\ changes' = [changes EXCEPT !["A"] = @ + 1]
    /\ \E txt \in {ApplyEdits(text["A"], ccs)} :
          slicers' = [slicers EXCEPT ![1] =
                         updateTargetDecos(onDocChangeOffsets(@, ccs, txt), txt)]
    /\ UNCHANGED <<openDocs, docSlicers, contents, flowrSession,
                   newest, tasks, issued, tg, rm, sh, reg>>

NextTrack ==
    \/ \E P \in PositionLists("A") : TrackToggle(P)
    \/ \E ccs \in EditSeqs(text["A"], MaxBatch) : TrackChange(ccs)

SpecTrack == InitTrack /\ [][NextTrack]_vars

\* SpecSession: the commands of part_000 and the dataflow command of
\* diagram.ts on the session registry.
InitSession ==
    /\ openDocs = {} /\ text = [d \in Docs |-> <<>>] /\ InitCommon
    /\ tg = NoToggle /\ rm = NoRemap /\ sh = NoShift
    /\ reg = NoRegistry

SessionFrame ==
    UNCHANGED <<openDocs, text, changes, slicers, docSlicers, contents, flowrSession,
                newest, tasks, issued, tg, rm, sh>>

\* r after a step that is not a destroySession call
Other(r) == [r EXCEPT !.lastDestroyed = 0]

\* r after the destroySession call made in registry before
Called(before, r) ==
    [r EXCEPT !.lastDestroyed = before.flowrSession,
              !.repeats = IF before.lastDestroyed # 0 THEN @ + 1 ELSE @]

\* command vscode-flowr.session.connect, and server.autoConnect in activate
SessionConnect ==
    /\ Len(reg.sessions) < MaxSessions
    /\ reg' = Other(establishServerSession(reg))
    /\ SessionFrame

\* command vscode-flowr.session.disconnect
SessionDisconnect ==
    /\ reg.flowrSession # 0
    /\ reg.sessions[reg.flowrSession].kind = "server"
    /\ reg' = Called(reg, destroySession(reg))
    /\ SessionFrame

\* the Disposable pushed to context.subscriptions and the SIGINT handler
SessionDispose ==
    /\ reg' = Called(reg, destroySession(reg))
    /\ SessionFrame

\* establishInternalSession called by a caller other than the dataflow
\* command, up to its await
EstablishInternalSession ==
    /\ Len(reg.sessions) < MaxSessions
    /\ reg' = Other(establishInternalSession(reg))
    /\ SessionFrame

\* flowrSession?.retrieveDataflowMermaid(activeEditor) in registry r
callDiagram(r) ==
    IF r.flowrSession = 0 THEN r
    ELSE [r EXCEPT !.diagrams = Append(@, [session |-> r.flowrSession,
                                           ready |-> r.sessions[r.flowrSession].initialized])]

\* command vscode-flowr.dataflow with an active editor, up to its first
\* suspension: without a session it awaits establishInternalSession,
\* otherwise it calls retrieveDataflowMermaid at once.
Dataflow ==
    /\ Len(reg.diagrams) + Cardinality(reg.waiting) < MaxDiagrams
    /\ IF reg.flowrSession = 0
       THEN /\ Len(reg.sessions) < MaxSessions
            /\ reg' = [Other(establishInternalSession(reg)) EXCEPT
                           !.waiting = @ \cup {Len(reg.sessions) + 1}]
       ELSE reg' = Other(callDiagram(reg))
    /\ SessionFrame

\* initialize() of session s completes; the dataflow command that awaited
\* it goes on to flowrSession?.retrieveDataflowMermaid.
InitializeDone(s) ==
    /\ ~reg.sessions[s].initialized
    /\ LET r == Other([reg EXCEPT !.sessions[s].initialized = TRUE])
       IN reg' = IF s \in reg.waiting
                 THEN callDiagram([r EXCEPT !.waiting = @ \ {s}])
                 ELSE r
    /\ SessionFrame

NextSession ==
    \/ SessionConnect
    \/ SessionDisconnect
    \/ SessionDispose
    \/ EstablishInternalSession
    \/ Dataflow
    \/ \E s \in 1..Len(reg.sessions) : InitializeDone(s)

SpecSession == InitSession /\ [][NextSession]_vars

\* ------------------------------------------------------ the system ----

Next ==
    \/ \E d \in openDocs : \E P \in PositionLists(d) : AddPositions(d, P)
    \/ \E d \in openDocs : DisposeActive(d)
    \/ \E d \in openDocs : \E ccs \in EditSeqs(text[d], MaxBatch) : OnDocChange(d, ccs)
    \/ \E i \in 1..Len(tasks) : ResumeUpdateSlices(i)
    \/ \E i \in 1..Len(tasks) : SliceResponse(i)
    \/ \E i \in 1..Len(tasks) : SliceEmpty(i)
    \/ \E i \in 1..Len(tasks) : SliceFails(i)
    \/ EstablishServerSession
    \/ Disconnect

Spec == Init /\ [][Next]_vars

\* SpecOrder: the order of change notifications, updates and slice
\* requests. The handlers are those of Spec; a toggle has one cursor
\* position and a notification one edit at the front of the text (a blank
\* inserted, which shifts every offset, or the first character deleted).
OrderEdits(txt) == {Edit(0, 0, <<" ">>)} \cup (IF txt = <<>> THEN {} ELSE {Edit(0, 1, <<>>)})

NextOrder ==
    \/ \E d \in openDocs : \E p \in Positions(text[d]) : AddPositions(d, <<p>>)
    \/ \E d \in openDocs : \E cc \in OrderEdits(text[d]) : OnDocChange(d, <<cc>>)
    \/ \E i \in 1..Len(tasks) : ResumeUpdateSlices(i)
    \/ \E i \in 1..Len(tasks) : SliceResponse(i)
    \/ \E i \in 1..Len(tasks) : SliceEmpty(i)
    \/ \E i \in 1..Len(tasks) : SliceFails(i)

SpecOrder == Init /\ [][NextOrder]_vars

\* SpecDocs: both documents are open in the editor, each with a slicer of
\* its own once positions are toggled; A is the document that is edited,
\* every slice request is answered with a slice, and a command or edit
\* comes when fewer than MaxPending updates are suspended.
InitDocs ==
    /\ openDocs = Docs
    /\ text = [d \in Docs |-> InitText]
    /\ InitCommon
    /\ tg = NoToggle /\ rm = NoRemap /\ sh = NoShift /\ reg = NoRegistry

\* the cursor is at one of the two places at the front of the text
FrontPositions(txt) == {positionAt(txt, 0), positionAt(txt, 1)}

NextDocs ==
    \/ /\ Len(tasks) < MaxPending
       /\ \E d \in openDocs : \E p \in FrontPositions(text[d]) : AddPositions(d, <<p>>)
    \/ /\ Len(tasks) < MaxPending
       /\ \E cc \in OrderEdits(text["A"]) : OnDocChange("A", <<cc>>)
    \/ \E i \in 1..Len(tasks) : ResumeUpdateSlices(i)
    \/ \E i \in 1..Len(tasks) : SliceResponse(i)

SpecDocs == InitDocs /\ [][NextDocs]_vars

\* ============================================================ claims ====
TgN == Range(NormalizeAll(tg.text, tg.P))
RmText == ApplyEdits(rm.text, rm.ccs)
RmLost == {o \in Range(rm.T) : ~RefSurvives(Len(rm.text), rm.ccs, o)}
RmExpect == {TokenStart(RmText, RefImage(Len(rm.text), rm.ccs, o)) : o \in Range(rm.T) \ RmLost}

\* C1: the rendered slice never regresses: once the response of a request
\* of a document has arrived, neither the reconstruction content nor the
\* slice decorations of the document show the result of an earlier request.
C1_NeverStale ==
    \A d \in Docs :
        /\ contents[d].kind = "code" => contents[d].seq >= newest[d]
        /\ \A i \in 1..Len(slicers) :
              slicers[i].doc = d /\ slicers[i].shown # 0 => slicers[i].shown >= newest[d]

\* C2: after a change notification the tracked set is exactly the set of
\* images of the entries whose character the edits did not replace: every
\* invalidated entry is gone and no other entry is lost.
C2_ExactlyInvalidatedLost ==
    rm.done => Range(rm.offsets) = RmExpect

\* C3 (as claimed): toggling the same positions twice in succession leaves
\* the tracked set as it was.
C3_ToggleTwiceRestores ==
    tg.step = 2 => Range(tg.offsets) = Range(tg.T)

\* C3 (amended): toggling the same positions twice restores the tracked set
\* when the normalized offsets N are all tracked or all untracked; when N
\* mixes tracked and untracked offsets the result is T without N.
C3_ToggleTwiceRestoresUnmixed ==
    tg.step = 2 =>
        IF TgN \subseteq Range(tg.T) \/ TgN \cap Range(tg.T) = {}
        THEN Range(tg.offsets) = Range(tg.T)
        ELSE Range(tg.offsets) = Range(tg.T) \ TgN

C3_Witness ==
    /\ tg.step = 2 /\ tg.T # <<>>
    /\ TgN # {} /\ TgN \cap Range(tg.T) = {}
    /\ Range(tg.offsets) = Range(tg.T)

\* C4: no slicer tracks an offset twice.
C4_NoDuplicates ==
    \A i \in 1..Len(slicers) :
        \A j, k \in 1..Len(slicers[i].offsets) :
            slicers[i].offsets[j] = slicers[i].offsets[k] => j = k

\* C5: when every handler has run to completion, docSlicers holds no
\* slicer with an empty tracked set.
C5_EmptySlicerRemoved ==
    tasks = <<>> => \A d \in Docs : docSlicers[d] # 0 => slicers[docSlicers[d]].offsets # <<>>

\* C6: togglePositions never toggles partially: with N the normalized
\* offsets and T the tracked set before, the set after is T \ N when N is a
\* non-empty subset of T, T \cup N when N has an untracked offset, and the
\* tracked offsets are untouched when N is empty.
C6_NoPartialToggle ==
    tg.step >= 1 =>
        LET T == Range(tg.before)
        IN IF TgN = {} THEN tg.offsets = tg.before
           ELSE IF TgN \subseteq T THEN Range(tg.offsets) = T \ TgN
           ELSE Range(tg.offsets) = T \cup TgN

C6_Witness ==
    /\ tg.step = 1
    /\ TgN \cap Range(tg.before) # {} /\ TgN \ Range(tg.before) # {}
    /\ Range(tg.offsets) = Range(tg.before) \cup TgN

\* C7: togglePositions returns true exactly when the tracked set after the
\* call differs from the tracked set before it.
C7_ReturnsWhetherChanged ==
    tg.step >= 1 => (tg.ret <=> Range(tg.offsets) # Range(tg.before))

C7_Witness ==
    /\ tg.step = 1 /\ tg.ret
    /\ Len(NormalizeAll(tg.text, tg.P)) > Cardinality(TgN)
    /\ Range(tg.offsets) # Range(tg.before)

\* C8: shiftOffset returns the offset unchanged when the edit starts after
\* it, invalidates it when start <= offset < start + replaced length, and
\* otherwise returns offset + (replacement length - replaced length).
C8_ShiftOffsetThreeCases ==
    sh.done =>
        LET start == sh.cc.rangeOffset
            stop == sh.cc.rangeOffset + sh.cc.rangeLength
        IN /\ start > sh.offset => sh.res = Num(sh.offset)
           /\ start <= sh.offset /\ sh.offset < stop => sh.res = undefined
           /\ stop <= sh.offset =>
                 sh.res = Num(sh.offset + (Len(sh.cc.text) - sh.cc.rangeLength))

\* inserting 7 characters at offset 0 moves offset 10 to 17
C8_Witness ==
    /\ sh.done /\ sh.offset = 10
    /\ sh.cc.rangeOffset = 0 /\ sh.cc.rangeLength = 0 /\ Len(sh.cc.text) = 7
    /\ sh.res = Num(17)

\* C9: after non-overlapping edits, every tracked offset whose character
\* no edit replaced is tracked at the start of the token that character
\* has in the edited text.
C9_SurvivorsFollowTheirCharacter ==
    rm.done /\ NonOverlapping([i \in 1..Len(rm.text) |-> i], rm.ccs) =>
        RmExpect \subseteq Range(rm.offsets)

\* C10: every retrieveSlice request in flight was sent with positions of
\* offsets that had been remapped through every change notification the
\* document had seen when the request was issued.
C10_RequestsFollowEdits ==
    \A i \in 1..Len(tasks) : tasks[i].pc = "slice" => tasks[i].offVer = tasks[i].sentVer

\* an update that was waiting for the session when an edit arrived has
\* issued its request
C10_Witness ==
    \E i \in 1..Len(tasks) :
        /\ tasks[i].pc = "slice" /\ tasks[i].startVer < tasks[i].sentVer
        /\ tasks[i].offVer = tasks[i].sentVer

\* C11: an update that resumes for a slicer without tracked offsets sends
\* no retrieveSlice request (no request is counted and no update of the
\* slicer waits for a response it did not wait for before) and leaves the
\* slicer without slice decorations.
C11_EmptyUpdateSendsNothing ==
    [][\A i \in 1..Len(tasks) :
          (/\ tasks[i].pc = "session"
           /\ slicers[tasks[i].s].offsets = <<>>
           /\ ResumeUpdateSlices(i))
          => /\ issued' = issued
             /\ \A k \in 1..Len(tasks') : tasks'[k].pc = "slice" => tasks'[k] \in Range(tasks)
             /\ slicers'[tasks[i].s].sliceDecos = "undefined"
             /\ slicers'[tasks[i].s].shown = 0]_vars

\* a slice had been rendered for the document; then the last position was
\* toggled off and the update published '# No slice' without a request
C11_Witness ==
    \E d \in Docs : \E i \in 1..Len(slicers) :
        /\ slicers[i].doc = d /\ slicers[i].offsets = <<>>
        /\ newest[d] >= 1 /\ issued[d] = newest[d]
        /\ contents[d] = NoSliceContent
        /\ slicers[i].sliceDecos = "undefined" /\ slicers[i].shown = 0

\* C12: at most one session has been created and not destroyed, it is the
\* one registered in flowrSession, and every session that is not registered
\* has had destroy() called on it.
C12_OneLiveSession ==
    LET live == {s \in 1..Len(reg.sessions) : reg.sessions[s].destroyed = 0}
    IN /\ Cardinality(live) <= 1
       /\ live \subseteq {reg.flowrSession}
       /\ \A s \in 1..Len(reg.sessions) :
             s # reg.flowrSession => reg.sessions[s].destroyed >= 1

\* an internal session was replaced while its initialize() was pending
C12_Witness ==
    /\ Len(reg.sessions) >= 2 /\ reg.flowrSession = 2
    /\ reg.sessions[1].kind = "internal" /\ ~reg.sessions[1].initialized
    /\ reg.sessions[1].destroyed = 1
    /\ reg.sessions[2].destroyed = 0

\* C13: the response to a request whose session is no longer the registered
\* one when it arrives is not rendered: it changes neither the
\* reconstruction content nor the slice decorations.
C13_ReplacedSessionNotRendered ==
    [][\A i \in 1..Len(tasks) :
          (/\ tasks[i].pc = "slice"
           /\ tasks[i].session # flowrSession
           /\ SliceResponse(i) \/ SliceEmpty(i))
          => /\ contents' = contents
             /\ \A k \in 1..Len(slicers) :
                   /\ slicers'[k].sliceDecos = slicers[k].sliceDecos
                   /\ slicers'[k].shown = slicers[k].shown]_vars

\* C14: when retrieveSlice rejects, the document is presented as 'no
\* slice' (the reconstruction content holds no code of an earlier response
\* and the slicer shows no slice decorations) and the tracked offsets stay
\* as they are.
C14_FailureShowsNoSlice ==
    [][\A i \in 1..Len(tasks) :
          SliceFails(i) =>
              LET s == tasks[i].s
              IN /\ contents'[slicers[s].doc].kind # "code"
                 /\ slicers'[s].shown = 0
                 /\ slicers'[s].offsets = slicers[s].offsets]_vars

\* C15: every tracked offset of every slicer is >= 0 and is the offset at
\* which a token of the document's current text starts.
IsTokenStart(txt, o) ==
    /\ 0 <= o /\ o < Len(txt)
    /\ txt[o + 1] = "w"
    /\ o = 0 \/ txt[o] # "w"

C15_TrackedAreTokenStarts ==
    \A i \in 1..Len(slicers) : \A k \in 1..Len(slicers[i].offsets) :
        IsTokenStart(text[slicers[i].doc], slicers[i].offsets[k])

\* two tokens are tracked, the second one where two change notifications
\* have moved it
C15_Witness ==
    /\ slicers[1].ver = 2
    /\ slicers[1].offsets = <<0, 2>>
    /\ text["A"] = <<"w", " ", "w">>
    /\ C15_TrackedAreTokenStarts

\* C16: a toggle of positions in a document d and a change notification
\* for d leave the slicers of every other document as they are, count no
\* request for any document and start updates only for slicers of d.
C16_OtherDocumentsUntouched ==
    [][\A d \in Docs :
          (\/ \E p \in FrontPositions(text[d]) : AddPositions(d, <<p>>)
           \/ \E cc \in OrderEdits(text[d]) : OnDocChange(d, <<cc>>))
          => /\ \A i \in 1..Len(slicers) : slicers[i].doc # d => slicers'[i] = slicers[i]
             /\ \A k \in (Len(tasks) + 1)..Len(tasks') : slicers'[tasks'[k].s].doc = d
             /\ \A k \in 1..Len(tasks) : tasks'[k] = tasks[k]
             /\ issued' = issued]_vars

\* both slicers tracked offset 0 and had their slices when a blank was
\* inserted in front of A's tracked token: A's offset moved and A's update
\* is under way, B's offset did not move and B has no update
C16_Witness ==
    \E i, j \in 1..Len(slicers) :
        /\ slicers[i].doc = "A" /\ slicers[j].doc = "B"
        /\ Len(tasks) = 1 /\ tasks[1].kind = "change" /\ tasks[1].s = i
        /\ slicers[i].offsets = <<1>> /\ contents["A"].kind = "code"
        /\ slicers[j].offsets = <<0>> /\ slicers[j].ver = 0
        /\ contents["B"] = CodeOf(1) /\ issued["B"] = 1
        /\ text["B"] = InitText

\* C17: in every state of the registry, destroySession does nothing when
\* no session is registered; with a session registered it calls destroy()
\* on that session once, touches no other session and leaves none
\* registered; a second call changes nothing more; and no session has had
\* destroy() called on it more than once.
C17_DestroySessionIdempotent ==
    LET once == destroySession(reg)
        twice == destroySession(once)
        cur == reg.flowrSession
    IN /\ cur = 0 => once = reg
       /\ cur # 0 =>
             /\ once.flowrSession = 0
             /\ once.sessions[cur].destroyed = reg.sessions[cur].destroyed + 1
             /\ \A s \in 1..Len(reg.sessions) : s # cur => once.sessions[s] = reg.sessions[s]
       /\ twice = once
       /\ \A s \in 1..Len(reg.sessions) : reg.sessions[s].destroyed <= 1

\* destroySession destroyed the registered session and was called again
\* directly afterwards
C17_Witness ==
    /\ reg.repeats >= 1 /\ reg.lastDestroyed = 0 /\ reg.flowrSession = 0
    /\ Len(reg.sessions) = 1 /\ reg.sessions[1].destroyed = 1

\* C18: when a response without slice elements is accepted, the slicer is
\* left without slice decorations and the reconstruction content of its
\* document is the '# No slice' placeholder, not the code of the response.
C18_EmptySliceShowsNoSlice ==
    [][\A i \in 1..Len(tasks) :
          SliceEmpty(i) =>
              LET s == tasks[i].s
                  d == slicers[s].doc
              IN /\ contents'[d].kind = "# No slice"
                 /\ contents'[d] # CodeOf(tasks[i].seq)
                 /\ slicers'[s].sliceDecos = "undefined"
                 /\ slicers'[s].shown = 0]_vars

\* the second request of a document was answered without slice elements
\* while its slicer tracked a position
C18_Witness ==
    \E d \in Docs : \E i \in 1..Len(slicers) :
        /\ slicers[i].doc = d /\ slicers[i].offsets # <<>>
        /\ contents[d] = NoSliceFor(2) /\ newest[d] = 2
        /\ slicers[i].sliceDecos = "undefined" /\ slicers[i].shown = 0

\* C19: every retrieveDataflowMermaid call of the dataflow command was made
\* on a session whose initialize() had completed.
C19_DiagramOnInitializedSession ==
    \A k \in 1..Len(reg.diagrams) : reg.diagrams[k].ready

\* C20: an update started by a change notification that came after its
\* slicer had been disposed and removed from docSlicers issues no
\* retrieveSlice request and writes neither the reconstruction content nor
\* the decorations of the slicer.
C20_DisposedSlicerSilent ==
    [][\A i \in 1..Len(tasks) :
          (/\ tasks[i].late
           /\ ResumeUpdateSlices(i) \/ SliceResponse(i) \/ SliceEmpty(i))
          => /\ issued' = issued
             /\ contents' = contents
             /\ slicers'[tasks[i].s].sliceDecos = slicers[tasks[i].s].sliceDecos
             /\ slicers'[tasks[i].s].shown = slicers[tasks[i].s].shown]_vars

\* C21: when disposeActivePositionSlicer has disposed the slicer of a
\* document, the reconstruction content under the uri of the slicer's
\* makeUri() is cleared and the slicer tracks no offsets.
C21_DisposeClears ==
    [][\A d \in Docs :
          DisposeActive(d) =>
              /\ contents'[d] = NoContent
              /\ slicers'[docSlicers[d]].offsets = <<>>]_vars

====
